---- MODULE Spec2Model ----
(***************************************************************************)
(* Model of aws/server/services.py: IPAClient (host enrolment against the  *)
(* freeIPA JSON-RPC API) and AWSClient (EC2 instance lifecycle).           *)
(*                                                                         *)
(* Every method is synchronous and runs to completion, so each method is   *)
(* one action.  What the outside world answers (the DNS resolver, the HTTP *)
(* transport, the JSON decoder, the EC2 API) is an input of the action.    *)
(* `call` records the last call: its operation, its arguments, what the    *)
(* world answered, what the method sent, logged, and how it ended.         *)
(*                                                                         *)
(* Text that the code slices or splits (DNS record text, host names, the   *)
(* rendered script) is a sequence of one-character strings.  Text that the *)
(* code only passes along is a TLA+ string.                                *)
(***************************************************************************)
EXTENDS Integers, Sequences, FiniteSets, TLC

VARIABLES
    client,      \* the IPAClient object the caller holds (its attributes), or NoClient
    call,        \* the last call made, with its inputs and its outcome
    instances,   \* the EC2 provider's state: the ids of the instances that exist
    prevRender   \* the render_manifest result before the last one (manifest, text)

vars == <<client, call, instances, prevRender>>

(***************************************************************************)
(* Bounds of the model.                                                    *)
(***************************************************************************)
MaxRecords == 2        \* SRV records in one DNS answer
MaxReservations == 2   \* reservations in one describe_instances response
MaxInstances == 2      \* instances the provider holds

(***************************************************************************)
(* Python values.                                                          *)
(***************************************************************************)
None == [t |-> "None"]

Return(v) == [kind |-> "return", value |-> v]

Raise(e) == [kind |-> "raise", exc |-> e]

\* s[-1] of a non-empty Python sequence
Last(s) == s[Len(s)]

\* s[:-1]: everything but the last element; empty stays empty
DropLast(s) == SubSeq(s, 1, Len(s) - 1)

\* str.split() helper: scan from position i, cur is the token being read
RECURSIVE SplitFrom(_, _, _, _)
SplitFrom(s, i, cur, acc) ==
    IF i > Len(s)
    THEN IF cur = <<>> THEN acc ELSE Append(acc, cur)
    ELSE IF s[i] = " "
         THEN SplitFrom(s, i + 1, <<>>, IF cur = <<>> THEN acc ELSE Append(acc, cur))
         ELSE SplitFrom(s, i + 1, Append(cur, s[i]), acc)

\* str.split(): the maximal runs of non-whitespace characters
split(s) == SplitFrom(s, 1, <<>>, <<>>)

(***************************************************************************)
(* Module constants.                                                       *)
(***************************************************************************)
API_VERSION == "2.28"

_KERBEROS_AUTH == "HTTPKerberosAuth"

(***************************************************************************)
(* The DNS resolver.                                                       *)
(***************************************************************************)
\* Targets of SRV records: absolute names (as dnspython prints names read
\* from the wire), the root name, and a name printed without its final period.
Targets ==
    { <<"a", ".">>, <<"b", ".">>, <<"a", ".", "b", ".">>, <<"a", "b">>, <<".">> }

SrvRecords == { [priority |-> <<"0">>, weight |-> <<"5">>, port |-> <<"8", "8">>,
                 target |-> t] : t \in Targets }

\* rdata.to_text() of an SRV record: "priority weight port target"
to_text(rd) ==
    rd.priority \o <<" ">> \o rd.weight \o <<" ">> \o rd.port \o <<" ">> \o rd.target

\* What dns.resolver.query can do: raise, or answer with records.  A stub
\* resolver can answer with no record at all.
DnsAnswers ==
    { [kind |-> "raise", exc |-> e, records |-> <<>>] : e \in {"NXDOMAIN", "NoAnswer"} }
    \cup { [kind |-> "answer", exc |-> "", records |-> r] :
             r \in UNION { [1..n -> SrvRecords] : n \in 0..MaxRecords } }

Domains == {"example.com"}

Cells == {"cell1"}

NoClient == [t |-> "NoClient"]

\* get_ipa_server_from_dns: the target of a record chosen at random.
\* `pick` is the index random.choice draws.
get_ipa_server_from_dns(tm_dns_domain, dns, pick) ==
    IF dns.kind = "raise"
    THEN Raise(dns.exc)
    ELSE LET raw_results == [i \in 1..Len(dns.records) |-> to_text(dns.records[i])]
         IN  IF raw_results = <<>>
             THEN Raise("IndexError")
             ELSE Return(Last(split(raw_results[pick])))

\* The attributes __init__ sets, given the name the lookup returned
ClientAttrs(cell, domain, server) ==
    LET hostn == DropLast(server)
        address == <<"https://", hostn, "/ipa">>
    IN  [t |-> "IPAClient",
         cell_name |-> cell,
         domain |-> domain,
         ipa_cert_location |-> "/etc/ipa/ca.crt",
         ipa_server_hostn |-> hostn,
         ipa_srv_address |-> address,
         ipa_srv_api_address |-> <<address, "/session/json">>,
         referer |-> [referer |-> address]]

\* IPAClient(): the object constructed, or the exception construction ends with
IPAClient_init(cell, domain, dns, pick) ==
    LET found == get_ipa_server_from_dns(domain, dns, pick)
    IN  IF found.kind = "raise"
        THEN found
        ELSE Return(ClientAttrs(cell, domain, found.value))

(***************************************************************************)
(* The HTTP transport and the JSON decoder.                                *)
(***************************************************************************)
Hostnames == {"h1", "h2"}

ErrorObject == [t |-> "dict", code |-> "4001", message |-> "no such entry"]

\* What r.json() can decode to
JsonBodies ==
    { [t |-> "dict", error |-> None, result |-> "ok"],
      [t |-> "dict", error |-> ErrorObject, result |-> "null"],
      [t |-> "dict", result |-> "ok"],
      [t |-> "list"],
      None }

\* What the world does with one POST: the transport raises, or a response
\* comes back whose body decodes or does not.
NetAnswers ==
    { [post |-> "raise", exc |-> e, json |-> "none", body |-> None] :
        e \in {"ConnectionError", "SSLError"} }
    \cup { [post |-> "response", exc |-> "", json |-> "raise", body |-> None] }
    \cup { [post |-> "response", exc |-> "", json |-> "ok", body |-> b] :
             b \in JsonBodies }

\* The exception the caller is handling when it makes the call, if any:
\* a bare `raise` re-raises it.
ActiveExceptions == {"", "OSError", "KeyboardInterrupt"}

\* The exceptions `except Exception` does not catch
BaseOnly == {"KeyboardInterrupt", "SystemExit", "GeneratorExit"}

\* Python truth value of a decoded `error`: null is false, an error object
\* (never empty) is true
Truthy(v) == v.t # "None"

\* _post: what requests.post is given, and what comes back
_post(self, payload, auth, net) ==
    [sent |-> [url |-> self.ipa_srv_api_address,
               json |-> payload,
               auth |-> auth,
               headers |-> self.referer,
               verify |-> self.ipa_cert_location],
     ret |-> IF net.post = "raise" THEN Raise(net.exc) ELSE Return("response")]

\* r.json(): the decoded body, or the decoder's exception
r_json(net) == IF net.json = "raise" THEN Raise("ValueError") ELSE Return(net.body)

\* _LOGGER.error(r, str(e)): the record handed to the logger
LogError(e) == [level |-> "error", msg |-> "response", args |-> <<e>>]

\* The outcome of a method: the requests it sent, what it logged, how it ended
Outcome(sent, log, ret) == [sent |-> sent, log |-> log, ret |-> ret]

(***************************************************************************)
(* IPAClient methods.                                                      *)
(***************************************************************************)
\* enroll_ipa_host with the POST moved inside the try block
enroll_ipa_host_post_in_try(self, hostname, net) ==
    LET payload == [method |-> "host_add",
                    params |-> << <<hostname>>,
                                  [force |-> TRUE,
                                   random |-> TRUE,
                                   version |-> API_VERSION] >>,
                    id |-> 0]
        r == _post(self, payload, _KERBEROS_AUTH, net)
        body == IF r.ret.kind = "raise" THEN r.ret
                ELSE IF net.json = "raise" THEN Raise("ValueError")
                ELSE Return(net.body)
    IN  IF body.kind = "raise"
        THEN Outcome(<<r.sent>>, <<[level |-> "error", msg |-> "response",
                                   args |-> <<body.exc>>]>>, Return(None))
        ELSE Outcome(<<r.sent>>, <<>>, Return(body.value))

\* enroll_ipa_host with `random` left out of the keyword arguments
enroll_ipa_host_no_random(self, hostname, net) ==
    LET payload == [method |-> "host_add",
                    params |-> << <<hostname>>,
                                  [force |-> TRUE, version |-> API_VERSION] >>,
                    id |-> 0]
        r == _post(self, payload, _KERBEROS_AUTH, net)
    IN  IF r.ret.kind = "raise"
        THEN Outcome(<<r.sent>>, <<>>, r.ret)
        ELSE IF net.json = "raise"
             THEN Outcome(<<r.sent>>, <<[level |-> "error", msg |-> "response",
                                        args |-> <<"ValueError">>]>>, Return(None))
             ELSE Outcome(<<r.sent>>, <<>>, Return(net.body))

enroll_ipa_host(self, hostname, net) ==
    LET payload == [method |-> "host_add",
                    params |-> << <<hostname>>,
                                  [force |-> TRUE,
                                   random |-> TRUE,
                                   version |-> API_VERSION] >>,
                    id |-> 0]
        r == _post(self, payload, _KERBEROS_AUTH, net)
    IN  IF r.ret.kind = "raise"
        THEN Outcome(<<r.sent>>, <<>>, r.ret)
        ELSE LET body == r_json(net)
             IN  IF body.kind = "raise"
                 THEN Outcome(<<r.sent>>, <<LogError(body.exc)>>, Return(None))
                 ELSE Outcome(<<r.sent>>, <<>>, Return(body.value))

\* r.json()['error'] followed by the bare `raise`: the exception the try
\* block ends with, "" when it ends normally.  `active` is the exception
\* the caller is handling ("" when none).
UnenrollTry(net, active) ==
    LET body == r_json(net)
    IN  IF body.kind = "raise" THEN body.exc
        ELSE IF body.value.t # "dict" THEN "TypeError"
        ELSE IF "error" \notin DOMAIN body.value THEN "KeyError"
        ELSE IF Truthy(body.value.error)
             THEN IF active = "" THEN "RuntimeError" ELSE active
             ELSE ""

unenroll_ipa_host(self, hostname, net, active) ==
    LET payload == [method |-> "host_del",
                    params |-> << <<hostname>>, [version |-> API_VERSION] >>,
                    id |-> 0]
        r == _post(self, payload, _KERBEROS_AUTH, net)
    IN  IF r.ret.kind = "raise"
        THEN Outcome(<<r.sent>>, <<>>, r.ret)
        ELSE LET e == UnenrollTry(net, active)
             IN  IF e = "" THEN Outcome(<<r.sent>>, <<>>, Return(None))
                 ELSE IF e \in BaseOnly THEN Outcome(<<r.sent>>, <<>>, Raise(e))
                 ELSE Outcome(<<r.sent>>, <<LogError(e)>>, Return(None))

get_ipa_hosts(self, net) ==
    LET payload == [method |-> "host_find",
                    params |-> << <<"">>, [version |-> API_VERSION] >>,
                    id |-> 0]
        r == _post(self, payload, _KERBEROS_AUTH, net)
    IN  IF r.ret.kind = "raise"
        THEN Outcome(<<r.sent>>, <<>>, r.ret)
        ELSE LET body == r_json(net)
             IN  IF body.kind = "raise"
                 THEN Outcome(<<r.sent>>, <<LogError(body.exc)>>, Return(None))
                 ELSE Outcome(<<r.sent>>, <<>>, Return(body.value))

\* get_ipa_host without the try block around r.json()
get_ipa_host_no_try(self, hostname, net) ==
    LET payload == [method |-> "host_find",
                    params |-> << <<hostname>>, [version |-> API_VERSION] >>,
                    id |-> 0]
        r == _post(self, payload, _KERBEROS_AUTH, net)
    IN  IF r.ret.kind = "raise"
        THEN Outcome(<<r.sent>>, <<>>, r.ret)
        ELSE Outcome(<<r.sent>>, <<>>, r_json(net))

get_ipa_host(self, hostname, net) ==
    LET payload == [method |-> "host_find",
                    params |-> << <<hostname>>, [version |-> API_VERSION] >>,
                    id |-> 0]
        r == _post(self, payload, _KERBEROS_AUTH, net)
    IN  IF r.ret.kind = "raise"
        THEN Outcome(<<r.sent>>, <<>>, r.ret)
        ELSE LET body == r_json(net)
             IN  IF body.kind = "raise"
                 THEN Outcome(<<r.sent>>, <<LogError(body.exc)>>, Return(None))
                 ELSE Outcome(<<r.sent>>, <<>>, Return(body.value))

(***************************************************************************)
(* The EC2 provider.                                                       *)
(***************************************************************************)
\* Orderings of distinct instance ids: what one reservation can hold
IdSeqs ==
    { q \in UNION { [1..n -> 1..MaxInstances] : n \in 0..MaxInstances } :
        \A i, j \in 1..Len(q) : i # j => q[i] # q[j] }

\* The ids in a sequence
Range(q) == { q[i] : i \in 1..Len(q) }

\* describe_instances responses: reservations (also empty ones), no
\* instance listed twice
DescribeResponses ==
    { [Reservations |-> [i \in 1..Len(rs) |->
                           [Instances |-> [j \in 1..Len(rs[i]) |->
                                             [InstanceId |-> rs[i][j]]]]]] :
        rs \in { x \in UNION { [1..n -> IdSeqs] : n \in 0..MaxReservations } :
                   \A i, j \in 1..Len(x) :
                       i # j => Range(x[i]) \cap Range(x[j]) = {} } }

\* The ids a response lists
ListedIds(resp) ==
    UNION { { resp.Reservations[i].Instances[j].InstanceId :
                j \in 1..Len(resp.Reservations[i].Instances) } :
            i \in 1..Len(resp.Reservations) }

\* What the provider can do with a describe_instances request: raise, or
\* list instances that exist
DescribeAnswers(existing) ==
    { [kind |-> "raise", exc |-> e, response |-> [Reservations |-> <<>>]] :
        e \in {"ClientError"} }
    \cup { [kind |-> "ok", exc |-> "", response |-> resp] :
             resp \in { x \in DescribeResponses : ListedIds(x) \subseteq existing } }

\* What the provider can do with a run_instances request
RunAnswers ==
    { [kind |-> "raise", exc |-> e] : e \in {"ClientError"} }
    \cup { [kind |-> "ok", exc |-> ""] }

\* The provider's instances after it served the requests of a call
RECURSIVE Ec2Apply(_, _, _)
Ec2Apply(existing, sent, answer) ==
    IF sent = <<>> THEN existing
    ELSE LET req == Head(sent)
             after ==
                 IF answer.kind = "raise" THEN existing
                 ELSE IF req.api = "run_instances"
                      THEN existing \cup
                           ((Cardinality(existing) + 1) ..
                            (Cardinality(existing) + req.MaxCount))
                 ELSE IF req.api = "terminate_instances"
                      THEN existing \ Range(req.InstanceIds)
                 ELSE existing
         IN  Ec2Apply(after, Tail(sent), answer)

(***************************************************************************)
(* AWSClient methods.                                                      *)
(***************************************************************************)
Counts == {1, 2}

Manifests ==
    [image_id : {"ami-1"},
     count : Counts,
     instance_type : {"t2.small"},
     key : {"ms_treadmill_dev"},
     subnet_id : {"subnet-1"},
     secgroup_ids : {"sg-1"},
     fqdn : { <<"h", "1">> },
     domain : { <<"d">> },
     realm : { <<"R">> },
     otp : { <<"p">>, <<"'", ";">> }]

\* _LOGGER.info(text)
LogInfo(text) == [level |-> "info", msg |-> text, args |-> <<>>]

\* render_manifest with the realm passed for the password
render_manifest_realm_for_otp(manifest) ==
    <<"#!/bin/bash \nhostnamectl set-hostname ">> \o manifest.fqdn
    \o <<"\n \nyum install -y ipa-client-install\n\nipa-client-install --server=">>
    \o manifest.fqdn
    \o <<" --domain=">> \o manifest.domain
    \o <<" \\ \n--realm=">> \o manifest.realm
    \o <<"  --password='">> \o manifest.realm
    \o <<"'--mkhomedir --no-ntp --unattended">>

\* str.format on the template: the literal pieces with the values between
render_manifest(manifest) ==
    <<"#!/bin/bash \nhostnamectl set-hostname ">> \o manifest.fqdn
    \o <<"\n \nyum install -y ipa-client-install\n\nipa-client-install --server=">>
    \o manifest.fqdn
    \o <<" --domain=">> \o manifest.domain
    \o <<" \\ \n--realm=">> \o manifest.realm
    \o <<"  --password='">> \o manifest.otp
    \o <<"'--mkhomedir --no-ntp --unattended">>

\* create_instance that asks once more when the provider refuses
create_instance_retrying(manifest, answer) ==
    LET request == [api |-> "run_instances",
                    ImageId |-> manifest.image_id,
                    MinCount |-> manifest.count,
                    MaxCount |-> manifest.count,
                    InstanceType |-> manifest.instance_type,
                    KeyName |-> manifest.key,
                    UserData |-> render_manifest(manifest),
                    NetworkInterfaces |->
                        << [DeviceIndex |-> 0,
                            SubnetId |-> manifest.subnet_id,
                            Groups |-> <<manifest.secgroup_ids>>] >>]
    IN  IF answer.kind = "raise"
        THEN Outcome(<<request, request>>, <<>>, Raise(answer.exc))
        ELSE Outcome(<<request>>, <<LogInfo(<<"New instances: ", "None">>)>>,
                     Return(None))

create_instance(manifest, answer) ==
    LET user_data == render_manifest(manifest)
        request == [api |-> "run_instances",
                    ImageId |-> manifest.image_id,
                    MinCount |-> manifest.count,
                    MaxCount |-> manifest.count,
                    InstanceType |-> manifest.instance_type,
                    KeyName |-> manifest.key,
                    UserData |-> user_data,
                    NetworkInterfaces |->
                        << [DeviceIndex |-> 0,
                            SubnetId |-> manifest.subnet_id,
                            Groups |-> <<manifest.secgroup_ids>>] >>]
    IN  IF answer.kind = "raise"
        THEN Outcome(<<request>>, <<>>, Raise(answer.exc))
        ELSE Outcome(<<request>>, <<LogInfo(<<"New instances: ", "None">>)>>,
                     Return(None))

\* The flattening with the reservations taken last to first
RECURSIVE Flatten_last_first(_)
Flatten_last_first(reservations) ==
    IF reservations = <<>> THEN <<>>
    ELSE Flatten_last_first(Tail(reservations)) \o Head(reservations)

\* [result for reservation in reservations for result in reservation]
RECURSIVE Flatten(_)
Flatten(reservations) ==
    IF reservations = <<>> THEN <<>>
    ELSE Head(reservations) \o Flatten(Tail(reservations))

get_instance_by_hostname(hostname, answer) ==
    LET filters == << [Name |-> "tag:Name", Values |-> <<hostname>>] >>
        request == [api |-> "describe_instances", Filters |-> filters]
    IN  IF answer.kind = "raise"
        THEN Outcome(<<request>>, <<>>, Raise(answer.exc))
        ELSE LET described == answer.response.Reservations
                 reservations == [i \in 1..Len(described) |-> described[i].Instances]
             IN  Outcome(<<request>>, <<>>, Return(Flatten(reservations)))

\* delete_instance that asks the provider to terminate what it found
delete_instance_terminating(hostname, answer) ==
    LET found == get_instance_by_hostname(hostname, answer)
    IN  IF found.ret.kind = "raise"
        THEN found
        ELSE LET instancesFound == found.ret.value
             IN  Outcome(found.sent \o
                           << [api |-> "terminate_instances",
                               InstanceIds |-> [i \in 1..Len(instancesFound) |->
                                                  instancesFound[i].InstanceId]] >>,
                         [i \in 1..Len(instancesFound) |->
                            LogInfo(<<"Delete ", instancesFound[i].InstanceId>>)],
                         Return(None))

delete_instance(hostname, answer) ==
    LET found == get_instance_by_hostname(hostname, answer)
    IN  IF found.ret.kind = "raise"
        THEN found
        ELSE LET instancesFound == found.ret.value
             IN  Outcome(found.sent,
                         [i \in 1..Len(instancesFound) |->
                            LogInfo(<<"Delete ", instancesFound[i].InstanceId>>)],
                         Return(None))

(***************************************************************************)
(* State machine.                                                          *)
(***************************************************************************)
NoCall == [op |-> "none"]

\* The record of a call: operation, arguments, the world's answer, outcome
Called(op, args, world, out) ==
    [op |-> op, args |-> args, world |-> world,
     sent |-> out.sent, log |-> out.log, ret |-> out.ret]

NoRender == [t |-> "NoRender"]

Init ==
    /\ client = NoClient
    /\ call = NoCall
    /\ instances = {}
    /\ prevRender = NoRender

\* The indices random.choice can draw from the answer
Picks(dns) == IF Len(dns.records) = 0 THEN {0} ELSE 1..Len(dns.records)

Construct ==
    \E cell \in Cells, domain \in Domains, dns \in DnsAnswers :
      \E pick \in Picks(dns) :
        LET ret == IPAClient_init(cell, domain, dns, pick)
        IN  /\ call' = Called("IPAClient", [cell |-> cell, domain |-> domain],
                              dns, Outcome(<<[qname |-> <<"_kerberos._tcp.", domain>>,
                                             rdtype |-> "SRV"]>>, <<>>, ret))
            /\ client' = IF ret.kind = "return" THEN ret.value ELSE client
            /\ UNCHANGED <<instances, prevRender>>

Enroll ==
    /\ client # NoClient
    /\ \E hostname \in Hostnames, net \in NetAnswers :
         call' = Called("enroll_ipa_host", [hostname |-> hostname], net,
                        enroll_ipa_host(client, hostname, net))
    /\ UNCHANGED <<client, instances, prevRender>>

Unenroll ==
    /\ client # NoClient
    /\ \E hostname \in Hostnames, net \in NetAnswers, active \in ActiveExceptions :
         call' = Called("unenroll_ipa_host",
                        [hostname |-> hostname, active |-> active], net,
                        unenroll_ipa_host(client, hostname, net, active))
    /\ UNCHANGED <<client, instances, prevRender>>

GetHosts ==
    /\ client # NoClient
    /\ \E net \in NetAnswers :
         call' = Called("get_ipa_hosts", [hostname |-> ""], net,
                        get_ipa_hosts(client, net))
    /\ UNCHANGED <<client, instances, prevRender>>

GetHost ==
    /\ client # NoClient
    /\ \E hostname \in Hostnames, net \in NetAnswers :
         call' = Called("get_ipa_host", [hostname |-> hostname], net,
                        get_ipa_host(client, hostname, net))
    /\ UNCHANGED <<client, instances, prevRender>>

NextIPA == Construct \/ Enroll \/ Unenroll \/ GetHosts \/ GetHost

SpecIPA == Init /\ [][NextIPA]_vars

\* The render a call made, if it made one
RenderOf(c) ==
    IF c.op = "render_manifest"
    THEN [manifest |-> c.args.manifest, text |-> c.ret.value]
    ELSE IF c.op = "create_instance"
    THEN [manifest |-> c.args.manifest, text |-> c.sent[1].UserData]
    ELSE NoRender

\* prevRender after a further call: the latest render made before that call
Shift == IF RenderOf(call) # NoRender THEN RenderOf(call) ELSE prevRender

\* A provider that holds MaxInstances instances refuses to launch more
CreateInstance ==
    \E manifest \in Manifests, answer \in RunAnswers :
        LET out == create_instance(manifest, answer)
        IN  /\ answer.kind = "ok" =>
                   Cardinality(instances) + manifest.count <= MaxInstances
            /\ call' = Called("create_instance", [manifest |-> manifest], answer, out)
            /\ instances' = Ec2Apply(instances, out.sent, answer)
            /\ prevRender' = Shift
            /\ UNCHANGED client

DeleteInstance ==
    \E hostname \in Hostnames, answer \in DescribeAnswers(instances) :
        LET out == delete_instance(hostname, answer)
        IN  /\ call' = Called("delete_instance", [hostname |-> hostname], answer, out)
            /\ instances' = Ec2Apply(instances, out.sent, answer)
            /\ prevRender' = Shift
            /\ UNCHANGED client

GetInstanceByHostname ==
    \E hostname \in Hostnames, answer \in DescribeAnswers(instances) :
        LET out == get_instance_by_hostname(hostname, answer)
        IN  /\ call' = Called("get_instance_by_hostname", [hostname |-> hostname],
                              answer, out)
            /\ instances' = Ec2Apply(instances, out.sent, answer)
            /\ prevRender' = Shift
            /\ UNCHANGED client

RenderManifest ==
    \E manifest \in Manifests :
        /\ call' = Called("render_manifest", [manifest |-> manifest],
                          [kind |-> "none"],
                          Outcome(<<>>, <<>>, Return(render_manifest(manifest))))
        /\ prevRender' = Shift
        /\ UNCHANGED <<client, instances>>

NextAWS == CreateInstance \/ DeleteInstance \/ GetInstanceByHostname \/ RenderManifest

SpecAWS == Init /\ [][NextAWS]_vars

(***************************************************************************)
(* Properties.                                                             *)
(***************************************************************************)
ReturningMethods == {"enroll_ipa_host", "get_ipa_hosts", "get_ipa_host"}

\* The decoded body of the last call's response has a non-null `error`
ErrorReported ==
    /\ call.world.post = "response"
    /\ call.world.json = "ok"
    /\ call.world.body.t = "dict"
    /\ "error" \in DOMAIN call.world.body
    /\ call.world.body.error # None

\* C1: when the host_del response decodes to a body whose `error` is
\* non-null, unenroll_ipa_host ends by raising to its caller.
C1_UnenrollSurfacesError ==
    (call.op = "unenroll_ipa_host" /\ ErrorReported) => call.ret.kind = "raise"

\* C2 as stated: when the POST itself raises, enroll_ipa_host, get_ipa_host
\* and get_ipa_hosts log the failure and return nothing.
C2_TransportFailureSwallowed ==
    (call.op \in ReturningMethods /\ call.world.post = "raise")
        => /\ call.ret.kind = "return"
           /\ call.ret.value = None
           /\ Len(call.log) >= 1

\* C2 amended: when the POST itself raises, enroll_ipa_host, get_ipa_host and
\* get_ipa_hosts log nothing and the transport's exception reaches the caller.
C2_TransportFailurePropagates ==
    (call.op \in ReturningMethods /\ call.world.post = "raise")
        => /\ call.ret.kind = "raise"
           /\ call.ret.exc = call.world.exc
           /\ call.log = <<>>

C2_Witness ==
    /\ call.op = "enroll_ipa_host"
    /\ call.world.post = "raise"
    /\ call.ret.kind = "raise"
    /\ Len(call.sent) = 1

\* C3: when a response arrives, enroll_ipa_host, get_ipa_host and
\* get_ipa_hosts never raise: they return nothing when decoding the body
\* raises, and the decoded body when it does not.
C3_ParseFailureSwallowed ==
    (call.op \in ReturningMethods /\ call.world.post = "response")
        => /\ call.ret.kind = "return"
           /\ call.world.json = "raise" => call.ret.value = None
           /\ call.world.json = "ok" => call.ret.value = call.world.body

C3_Witness ==
    /\ call.op = "get_ipa_host"
    /\ call.world.post = "response"
    /\ call.world.json = "raise"
    /\ call.ret.kind = "return"
    /\ Len(call.log) = 1

\* A name without its trailing period, otherwise unchanged
StripTrailingPeriod(name) ==
    IF name # <<>> /\ name[Len(name)] = "." THEN SubSeq(name, 1, Len(name) - 1)
    ELSE name

\* C4: for a non-empty SRV answer, construction succeeds and the server host
\* name is the target of one of the records with its trailing period
\* stripped and otherwise unchanged.
C4_ServerIsARecordTarget ==
    (call.op = "IPAClient" /\ call.world.kind = "answer" /\ Len(call.world.records) > 0)
        => /\ call.ret.kind = "return"
           /\ \E i \in 1..Len(call.world.records) :
                 call.ret.value.ipa_server_hostn
                     = StripTrailingPeriod(call.world.records[i].target)

\* C5: when the SRV lookup yields no record, construction fails with a
\* ResolutionError.
C5_NoRecordsIsResolutionError ==
    (call.op = "IPAClient" /\ call.world.records = <<>>)
        => /\ call.ret.kind = "raise"
           /\ call.ret.exc = "ResolutionError"

\* C6: a delete_instance call sends the provider the describe_instances
\* request and nothing else, and the provider's instances are the same
\* after the call as before it.
C6_DeleteLeavesProviderUnchanged ==
    [][call'.op = "delete_instance"
          => /\ instances' = instances
             /\ Len(call'.sent) = 1
             /\ call'.sent[1].api = "describe_instances"]_vars

C6_Witness ==
    /\ call.op = "delete_instance"
    /\ call.ret.kind = "return"
    /\ Len(call.log) >= 2
    /\ Cardinality(instances) >= 2

\* The number of instances in the first n reservations of a response
RECURSIVE InstancesBefore(_, _)
InstancesBefore(described, n) ==
    IF n = 0 THEN 0
    ELSE InstancesBefore(described, n - 1) + Len(described[n].Instances)

\* C7: get_instance_by_hostname returns the reservations' instance lists
\* joined in response order: as many elements as there are nested
\* instances, the j-th instance of the i-th reservation right after all
\* instances of the reservations before it.
C7_FlattenIsConcatenation ==
    (call.op = "get_instance_by_hostname" /\ call.world.kind = "ok")
        => LET described == call.world.response.Reservations
               result == call.ret.value
           IN  /\ call.ret.kind = "return"
               /\ Len(result) = InstancesBefore(described, Len(described))
               /\ \A i \in 1..Len(described) :
                    \A j \in 1..Len(described[i].Instances) :
                        result[InstancesBefore(described, i - 1) + j]
                            = described[i].Instances[j]

C7_Witness ==
    /\ call.op = "get_instance_by_hostname"
    /\ call.world.kind = "ok"
    /\ Len(call.world.response.Reservations) = 2
    /\ Len(call.world.response.Reservations[1].Instances) = 1
    /\ Len(call.world.response.Reservations[2].Instances) = 1
    /\ call.ret.value = << [InstanceId |-> 2], [InstanceId |-> 1] >>

\* C8: the request enroll_ipa_host hands to the transport has method
\* host_add, id 0 and two params: the list holding the host name, and
\* exactly force, random and the API version.
C8_EnrollPayload ==
    call.op = "enroll_ipa_host"
        => /\ Len(call.sent) = 1
           /\ call.sent[1].json.method = "host_add"
           /\ call.sent[1].json.id = 0
           /\ DOMAIN call.sent[1].json = {"method", "params", "id"}
           /\ Len(call.sent[1].json.params) = 2
           /\ call.sent[1].json.params[1] = <<call.args.hostname>>
           /\ call.sent[1].json.params[2]
                  = [force |-> TRUE, random |-> TRUE, version |-> "2.28"]

C8_Witness ==
    /\ call.op = "enroll_ipa_host"
    /\ call.args.hostname = "h2"
    /\ call.world.post = "response"
    /\ call.sent[1].json.params[1] = <<"h2">>

\* C9: create_instance sends the provider one run_instances request and
\* nothing else, with MinCount = MaxCount = the manifest's count and one
\* network interface on the manifest's subnet and security groups; when the
\* provider raises, the exception reaches the caller.
C9_CreateSendsOneRequest ==
    call.op = "create_instance"
        => /\ Len(call.sent) = 1
           /\ call.sent[1].api = "run_instances"
           /\ call.sent[1].MinCount = call.args.manifest.count
           /\ call.sent[1].MaxCount = call.args.manifest.count
           /\ Len(call.sent[1].NetworkInterfaces) = 1
           /\ call.sent[1].NetworkInterfaces[1].SubnetId = call.args.manifest.subnet_id
           /\ call.sent[1].NetworkInterfaces[1].Groups
                  = <<call.args.manifest.secgroup_ids>>
           /\ call.world.kind = "raise"
                  => (call.ret.kind = "raise" /\ call.ret.exc = call.world.exc)
           /\ call.world.kind = "ok" => call.ret.kind = "return"

C9_Witness ==
    /\ call.op = "create_instance"
    /\ call.world.kind = "raise"
    /\ call.ret.kind = "raise"
    /\ call.args.manifest.count = 2
    /\ instances # {}

\* v occurs in text as one unbroken run
Contains(text, v) ==
    \E i \in 1..(Len(text) - Len(v) + 1) : SubSeq(text, i, i + Len(v) - 1) = v

\* C10: every script render_manifest produces holds the manifest's fqdn,
\* domain, realm and one-time password verbatim, and is the same text as
\* the render before it whenever that one was of the same manifest,
\* whatever was called in between.
C10_RenderIsDeterministic ==
    RenderOf(call) # NoRender
        => LET r == RenderOf(call)
           IN  /\ Contains(r.text, r.manifest.fqdn)
               /\ Contains(r.text, r.manifest.domain)
               /\ Contains(r.text, r.manifest.realm)
               /\ Contains(r.text, r.manifest.otp)
               /\ (prevRender # NoRender /\ prevRender.manifest = r.manifest)
                      => prevRender.text = r.text

C10_Witness ==
    /\ call.op = "render_manifest"
    /\ prevRender # NoRender
    /\ prevRender.manifest = call.args.manifest
    /\ call.args.manifest.otp = <<"'", ";">>
    /\ instances # {}

====
